---- MODULE Spec2Model ----
(***************************************************************************)
(* Model of the schedule optimiser of src/main.py: the class Schedule      *)
(* with generate_random_schedule, get_cost, get_neighbor,                  *)
(* simulated_annealing and improve_results, and the pipeline that calls    *)
(* them (the script at the end of src/main.py and                          *)
(* Optimize.start_optimization of src/app/main.py).                        *)
(*                                                                         *)
(* The grid self.schedule is a numpy object array of shape                 *)
(* (class_id, day, time_slot).  It is modelled as a function from the      *)
(* linear (C order) cell index  c*day*time_slot + d*time_slot + ts  to a   *)
(* lesson record; the empty cell (Python None) is the record None.         *)
(* Instructor ids are the row indices 0..NumInstructors-1 that get_cost    *)
(* uses to index instructors_hours.                                        *)
(***************************************************************************)
EXTENDS Integers, Sequences, FiniteSets, TLC

VARIABLES
    pc,                 \* position of the running call / of the pipeline
    class_id, day, time_slot, max_clients_per_training,
    ticket_cost, hour_pay, pay_for_presence, class_renting_cost,
    initial_temp, n_iter_one_temp,      \* arguments of simulated_annealing
    clients,            \* client id -> selected_training (set of lesson types)
    instructors,        \* instructor id -> qualifications (set of lesson types)
    schedule,           \* self.schedule
    \* generate_random_schedule
    greedy, i, free_ts, lesson_type, training, lesson_id, gen_err, caller,
    \* pipeline
    initial_solution, sa_invoked, printed_cost, first_cost,
    \* simulated_annealing
    current_solution, best_solution, current_cost, best_cost, current_temp,
    counter, total_counter, j, neighbor_cost, returned,
    \* improve_results
    changed, instructor, c, trainings, trainings2, ii, jj, moved,
    cost_before, improved_cost,
    \* the grid the running call started from
    schedule0

gen_vars == <<greedy, i, free_ts, lesson_type, training, lesson_id, gen_err, caller>>
cfg_vars == <<class_id, day, time_slot, max_clients_per_training, ticket_cost, hour_pay,
              pay_for_presence, class_renting_cost, initial_temp, n_iter_one_temp,
              clients, instructors>>
sa_vars  == <<current_solution, best_solution, current_cost, best_cost, current_temp,
              counter, total_counter, j, neighbor_cost, returned>>
imp_vars == <<changed, instructor, c, trainings, trainings2, ii, jj, moved,
              cost_before, improved_cost>>
run_vars == <<initial_solution, sa_invoked, printed_cost, first_cost>>
vars == <<pc, cfg_vars, schedule, gen_vars, run_vars, sa_vars, imp_vars, schedule0>>

----------------------------------------------------------------------------
(* Bounds of the model.  Each specification draws its grids within its own  *)
(* bounds: classrooms, days, time slots, cells, lessons, instructors.        *)
CostMaxClass  == 2      \* grids handed to get_cost
CostMaxDay    == 2
CostMaxSlot   == 2
CostMaxCells  == 4
CostMaxLessons == 3
CostMaxInstructors == 2

SAMaxClass    == 2      \* grids handed to simulated_annealing
SAMaxDay      == 2
SAMaxSlot     == 2
SAMaxCells    == 4
SAMaxLessons  == 2
SAMaxInstructors == 1

ImpMaxClass   == 2      \* grids handed to improve_results
ImpMaxDay     == 3
ImpMaxSlot    == 3
ImpMaxCells   == 6
ImpMaxLessons == 3
ImpMaxInstructors == 2

GenMaxClass   == 2      \* Schedules handed to generate_random_schedule
GenMaxDay     == 2
GenMaxSlot    == 2
GenMaxCells   == 4
GenMaxInstructors == 2  \* rows of the instructors file
NumClients    == 2      \* rows of the clients file
NumTypes      == 2      \* lesson types that occur in the two files
MaxClientsPerTraining == 2          \* max_clients_per_training drawn from 1..

(* The prices a Schedule is built with: the defaults of Schedule.__init__,  *)
(* and prices typed into the application's form (on_text stores 0 for a     *)
(* field that is not a number).                                             *)
DefaultCosts ==
    [ticket_cost |-> 40, hour_pay |-> 50, pay_for_presence |-> 50,
     class_renting_cost |-> 200]
EditedCosts ==
    {DefaultCosts,
     [ticket_cost |-> 25, hour_pay |-> 30, pay_for_presence |-> 10,
      class_renting_cost |-> 120],
     [ticket_cost |-> 40, hour_pay |-> 0, pay_for_presence |-> 0,
      class_renting_cost |-> 0]}
Priced(costs) ==
    \E cs \in costs :
        /\ ticket_cost = cs.ticket_cost
        /\ hour_pay = cs.hour_pay
        /\ pay_for_presence = cs.pay_for_presence
        /\ class_renting_cost = cs.class_renting_cost

min_temp == 1
SAInitialTemp   == 4                \* initial_temp, n_iter_one_temp of the runs
SAIterOneTemp   == 1
FairInitialTemp == 8                \* the same, of the runs followed to their end
FairIterOneTemp == 2

(* simulated_annealing(initial_temp=t, n_iter_one_temp=n, ...), t one of     *)
(* temps                                                                    *)
Args(temps, n) == initial_temp \in temps /\ n_iter_one_temp = n

----------------------------------------------------------------------------
(* Domain model *)
LessonTypes   == 0 .. NumTypes - 1
InstructorIds == DOMAIN instructors
NumInstructors == Cardinality(InstructorIds)         \* self.instructors.shape[0]

None == [instructor |-> -1, lesson_type |-> -1, participants |-> << >>]

Lesson(instr, lt, participants) ==
    [instructor |-> instr, lesson_type |-> lt, participants |-> participants]

NumCells == class_id * day * time_slot
Cells    == 0 .. NumCells - 1
Idx(cc, d, ts) == cc * day * time_slot + d * time_slot + ts
ClassOf(k) == k \div (day * time_slot)
DayOf(k)   == (k % (day * time_slot)) \div time_slot

EmptyGrid == [k \in Cells |-> None]

----------------------------------------------------------------------------
(* get_cost: the three accumulators are filled cell by cell in the order   *)
(* of the c, d, ts loops and then combined.                                *)
CostAcc0 ==
    [participants_sum  |-> 0,
     instructors_hours |-> [n \in InstructorIds |-> [d \in 0 .. day - 1 |-> 0]],
     class_per_day     |-> [cc \in 0 .. class_id - 1 |-> [d \in 0 .. day - 1 |-> 0]]]

ClassPerDaySet(acc, k) == [acc.class_per_day EXCEPT ![ClassOf(k)][DayOf(k)] = 1]

CostVisit(acc, sol, k) ==
    IF sol[k] # None
    THEN [participants_sum  |-> acc.participants_sum + Len(sol[k].participants),
          instructors_hours |-> [acc.instructors_hours EXCEPT
                                   ![sol[k].instructor][DayOf(k)] = @ + 1],
          class_per_day     |-> ClassPerDaySet(acc, k)]
    ELSE acc

RECURSIVE CostLoop(_, _, _)
CostLoop(acc, sol, k) ==
    IF k >= NumCells THEN acc ELSE CostLoop(CostVisit(acc, sol, k), sol, k + 1)

RECURSIVE SumSeqFn(_, _, _)
SumSeqFn(f, lo, hi) == IF lo > hi THEN 0 ELSE f[lo] + SumSeqFn(f, lo + 1, hi)

MatrixSum(m, rows) ==
    SumSeqFn([r \in 0 .. rows - 1 |-> SumSeqFn(m[r], 0, day - 1)], 0, rows - 1)

PresenceCountMut(m) == MatrixSum(m, NumInstructors)
PresenceCount(m) ==
    MatrixSum([n \in InstructorIds |-> [d \in 0 .. day - 1 |->
                 IF m[n][d] > 0 THEN 1 ELSE 0]], NumInstructors)

get_cost(sol) ==
    LET acc == CostLoop(CostAcc0, sol, 0) IN
      ticket_cost * acc.participants_sum
      - hour_pay * MatrixSum(acc.instructors_hours, NumInstructors)
      - pay_for_presence * PresenceCount(acc.instructors_hours)
      - class_renting_cost * MatrixSum(acc.class_per_day, class_id)

----------------------------------------------------------------------------
(* The groups generate_random_schedule forms and where it may put them.     *)
RECURSIVE ClientSeq(_, _)
ClientSeq(lt, n) ==                 \* line 203, clients in file order
    IF n >= Cardinality(DOMAIN clients) THEN << >>
    ELSE (IF lt \in clients[n] THEN <<n>> ELSE << >>) \o ClientSeq(lt, n + 1)

all_participants(lt) == ClientSeq(lt, 0)
all_instructors(lt) == {n \in InstructorIds : lt \in instructors[n]}       \* line 204
num_of_trainings(lt) ==             \* line 206, ceil
    (Len(all_participants(lt)) + max_clients_per_training - 1) \div max_clients_per_training

Min(a, b) == IF a < b THEN a ELSE b

participants_of(lt, tr) ==          \* lines 208-209, a slice
    SubSeq(all_participants(lt), tr * max_clients_per_training + 1,
           Min(Len(all_participants(lt)),
               tr * max_clients_per_training + max_clients_per_training))

interval == day * time_slot         \* line 216

(* line 217: range(lesson_id % interval, shape[0], interval) *)
CongruentCells(lid) == {ts \in Cells : ts % interval = lid % interval}

(* lines 202-209: the groups in the order the two loops form them *)
RECURSIVE GroupsFrom(_, _, _)
GroupsFrom(lt, tr, last) ==
    IF lt > last THEN << >>
    ELSE IF tr >= num_of_trainings(lt) THEN GroupsFrom(lt + 1, 0, last)
    ELSE <<[lesson_type |-> lt, participants |-> participants_of(lt, tr)]>>
         \o GroupsFrom(lt, tr + 1, last)

(* The two files: k lesson types are asked for; client 0 selected every     *)
(* type, client 1 type 0 and the odd types; every instructor is qualified   *)
(* for every type.                                                          *)
ClientsOf(k) ==
    IF k = 0 THEN [n \in {} |-> {}]
    ELSE [n \in 0 .. 1 |-> IF n = 0 THEN 0 .. k - 1
                           ELSE {0} \cup {r \in 0 .. k - 1 : r % 2 = 1}]

InstructorsOf(n, k) == [m \in 0 .. n - 1 |-> 0 .. (IF k = 0 THEN 0 ELSE k - 1)]

(* lines 214/211-212, 221-222: group a goes to cell p[a] with instructor    *)
(* f[a]                                                                     *)
GridOf(groups, p, f) ==
    [k \in Cells |->
        IF \E a \in DOMAIN p : p[a] = k
        THEN LET a == CHOOSE b \in DOMAIN p : p[b] = k
             IN Lesson(f[a], groups[a].lesson_type, groups[a].participants)
        ELSE None]

(* every group in a cell of its own *)
Placements(n) ==
    {p \in [1 .. n -> Cells] : \A a, b \in 1 .. n : a # b => p[a] # p[b]}

(* lines 217-219: generate_random_schedule returns only when no group was   *)
(* put at a position of the week (cell modulo day*time_slot) that already   *)
(* held a lesson                                                            *)
Returned(p) ==
    \A a, b \in DOMAIN p : a # b => p[a] % interval # p[b] % interval

InstructorChoices(groups) ==
    {f \in [DOMAIN groups -> InstructorIds] :
        \A a \in DOMAIN groups : f[a] \in all_instructors(groups[a].lesson_type)}

(* the grids generate_random_schedule can return for these groups *)
GeneratedGrids(groups) ==
    {GridOf(groups, p, f) :
        p \in {q \in Placements(Len(groups)) : Returned(q)},
        f \in InstructorChoices(groups)}

Occupied(sol) == {k \in Cells : sol[k] # None}
Free(sol)     == {k \in Cells : sol[k] = None}

(* lines 254-258: get_neighbor raises on a grid with no lesson or no empty  *)
(* cell                                                                     *)
Degenerate(g) == Occupied(g) = {} \/ Free(g) = {}

(* lines 290-292, 306: simulated_annealing installs the grid it was given   *)
(* or a rearrangement of its lessons that get_cost rates strictly higher    *)
(* than every grid evaluated before it; within the sizes explored these are *)
(* the rearrangements rated higher than some grid generate_random_schedule  *)
(* returns with the same lessons.                                           *)
MinOf(S) == CHOOSE x \in S : \A y \in S : x <= y
InstalledGrids(groups) ==
    IF class_id = 1 \/ Len(groups) > interval THEN GeneratedGrids(groups)
    ELSE UNION {
        LET generated == {GridOf(groups, p, f) :
                             p \in {q \in Placements(Len(groups)) : Returned(q)}}
            lowest == MinOf({get_cost(g) : g \in generated})
        IN generated \cup
           {g \in {GridOf(groups, p, f) : p \in Placements(Len(groups))} :
               get_cost(g) > lowest}
        : f \in InstructorChoices(groups)}

(* A Schedule built from the two files, within the given bounds *)
ScheduleInit(maxC, maxD, maxT, maxCells, maxLessons, numInstr, perTraining) ==
    /\ class_id \in 1 .. maxC
    /\ day \in 1 .. maxD
    /\ time_slot \in 1 .. maxT
    /\ NumCells <= maxCells
    /\ max_clients_per_training \in perTraining
    /\ \E k \in 0 .. maxLessons :
         /\ clients = ClientsOf(k)
         /\ instructors = InstructorsOf(numInstr, k)
    /\ Len(GroupsFrom(0, 0, maxLessons)) <= maxLessons

(* A Schedule whose grid generate_random_schedule returned *)
GridInit(maxC, maxD, maxT, maxCells, maxLessons, numInstr, perTraining) ==
    /\ ScheduleInit(maxC, maxD, maxT, maxCells, maxLessons, numInstr, perTraining)
    /\ schedule \in GeneratedGrids(GroupsFrom(0, 0, maxLessons))
    /\ schedule0 = schedule

(* A Schedule whose grid simulated_annealing installed: with initial_temp    *)
(* not above min_temp the loop of line 280 is not entered and the generated *)
(* grid is installed as it is; otherwise the first get_neighbor must not    *)
(* have raised                                                              *)
InstalledInit(maxC, maxD, maxT, maxCells, maxLessons, numInstr, perTraining) ==
    /\ ScheduleInit(maxC, maxD, maxT, maxCells, maxLessons, numInstr, perTraining)
    /\ schedule \in IF initial_temp > min_temp
                     THEN {g \in InstalledGrids(GroupsFrom(0, 0, maxLessons)) :
                              ~Degenerate(g)}
                     ELSE GeneratedGrids(GroupsFrom(0, 0, maxLessons))
    /\ schedule0 = schedule


(* Values of the locals of a method that is not running *)
GenIdle ==
    /\ greedy = FALSE /\ i = 0 /\ free_ts = << >> /\ lesson_type = 0
    /\ training = 0 /\ lesson_id = -1 /\ gen_err = "" /\ caller = ""

SAIdle ==
    /\ current_solution = << >> /\ best_solution = << >>
    /\ current_cost = 0 /\ best_cost = 0 /\ current_temp = <<0, 1>>
    /\ counter = 0 /\ total_counter = 0 /\ j = 0 /\ neighbor_cost = 0
    /\ returned = << >>

ImpIdle ==
    /\ changed = FALSE /\ instructor = 0 /\ c = 0 /\ trainings = << >>
    /\ trainings2 = << >> /\ ii = 0 /\ jj = 0 /\ moved = << >>
    /\ cost_before = 0 /\ improved_cost = 0

----------------------------------------------------------------------------
(* The caller's two get_cost() calls on the grid it holds                   *)
(* (src/app/main.py, print('Initial earnings: ', SM.get_cost()) and         *)
(* first_cost = SM.get_cost()).                                             *)
CostPrint ==
    /\ pc = "cost_print"
    /\ printed_cost' = get_cost(schedule)
    /\ pc' = "cost_first"
    /\ UNCHANGED <<cfg_vars, schedule, gen_vars, initial_solution, sa_invoked, first_cost,
                   sa_vars, imp_vars, schedule0>>

CostFirst ==
    /\ pc = "cost_first"
    /\ first_cost' = get_cost(schedule)
    /\ pc' = "cost_done"
    /\ UNCHANGED <<cfg_vars, schedule, gen_vars, initial_solution, sa_invoked, printed_cost,
                   sa_vars, imp_vars, schedule0>>

CostInit ==
    /\ pc = "cost_print"
    /\ Priced(EditedCosts)
    /\ Args({SAInitialTemp}, SAIterOneTemp)
    /\ GridInit(CostMaxClass, CostMaxDay, CostMaxSlot, CostMaxCells, CostMaxLessons,
                CostMaxInstructors, 1 .. MaxClientsPerTraining)
    /\ initial_solution = TRUE
    /\ sa_invoked = FALSE
    /\ printed_cost = 0 /\ first_cost = 0
    /\ GenIdle /\ SAIdle /\ ImpIdle

CostNext == CostPrint \/ CostFirst

SpecCost == CostInit /\ [][CostNext]_vars

----------------------------------------------------------------------------
(* get_neighbor: not_none_id and none_id are the two random.choice draws;   *)
(* the grid passed in is changed in place and returned.                     *)
get_neighbor_mut(sol, not_none_id, none_id) ==
    [sol EXCEPT ![none_id] = sol[not_none_id]]
get_neighbor(sol, not_none_id, none_id) ==
    [[sol EXCEPT ![none_id] = sol[not_none_id]] EXCEPT ![not_none_id] = None]

(* The outcomes of one call: random.choice on an empty index list raises     *)
(* IndexError before any cell is written (err), otherwise one outcome per    *)
(* pair of draws.                                                            *)
NeighborOutcomesMut(sol) ==
    IF Occupied(sol) = {} \/ Free(sol) = {}
    THEN {[err |-> FALSE, sol |-> sol]}
    ELSE {[err |-> FALSE, sol |-> get_neighbor(sol, a, b)] :
             a \in Occupied(sol), b \in Free(sol)}
NeighborOutcomes(sol) ==
    IF Occupied(sol) = {} \/ Free(sol) = {}
    THEN {[err |-> TRUE, sol |-> sol]}
    ELSE {[err |-> FALSE, sol |-> get_neighbor(sol, a, b)] :
             a \in Occupied(sol), b \in Free(sol)}

----------------------------------------------------------------------------
(* simulated_annealing.  The parameters of the run: *)
AlphaNum == 1                       \* alpha = AlphaNum / AlphaDen
AlphaDen == 2
EpsilonNum == 1                     \* epsilon = EpsilonNum / EpsilonDen
EpsilonDen == 100
n_iter_without_improvement == 2

(* current_temp is the exact fraction <<numerator, denominator>> *)
TempGreater(t, m) == t[1] > m * t[2]
CoolMut(t) == t
Cool(t) == <<AlphaNum * t[1], AlphaDen * t[2]>>
Abs(x) == IF x < 0 THEN -x ELSE x

(* lines 270-279 *)
SAEnter ==
    /\ pc = "sa_enter"
    /\ current_solution' = schedule
    /\ best_solution' = schedule
    /\ current_temp' = <<initial_temp, 1>>
    /\ current_cost' = get_cost(schedule)
    /\ best_cost' = get_cost(schedule)
    /\ counter' = 0
    /\ total_counter' = 0
    /\ pc' = "sa_while"
    /\ UNCHANGED <<cfg_vars, schedule, gen_vars, run_vars,
                   j, neighbor_cost, returned, imp_vars, schedule0>>

WhileCond == TempGreater(current_temp, min_temp) /\ counter < n_iter_without_improvement

(* line 281, loop entered *)
SAWhile ==
    /\ pc = "sa_while"
    /\ WhileCond
    /\ j' = 0
    /\ pc' = "sa_for"
    /\ UNCHANGED <<cfg_vars, schedule, gen_vars, run_vars,
                   current_solution, best_solution, current_cost, best_cost,
                   current_temp, counter, total_counter, neighbor_cost, returned,
                   imp_vars, schedule0>>

(* line 281 loop left, lines 306-307 *)
SAReturn ==
    /\ pc = "sa_while"
    /\ ~WhileCond
    /\ schedule' = best_solution
    /\ returned' = <<best_cost, total_counter>>
    /\ pc' = "sa_returned"
    /\ UNCHANGED <<cfg_vars, gen_vars, run_vars,
                   current_solution, best_solution, current_cost, best_cost,
                   current_temp, counter, total_counter, j, neighbor_cost,
                   imp_vars, schedule0>>

BestCostUpdStale(cost) == best_cost
BestCostUpdMut(cost) == cost
BestCostUpd(cost) == IF cost > best_cost THEN cost ELSE best_cost

BestSolutionUpdMut(sol, cost) == best_solution
BestSolutionUpd(sol, cost) == IF cost > best_cost THEN sol ELSE best_solution

(* lines 283-292: delta >= 0 *)
SAIterBetter ==
    /\ pc = "sa_for"
    /\ j < n_iter_one_temp
    /\ \E o \in NeighborOutcomes(current_solution) :
         LET neighbor_solution == o.sol
             cost == get_cost(neighbor_solution)
         IN /\ ~o.err
            /\ cost - current_cost >= 0
            /\ neighbor_cost' = cost
            /\ current_solution' = neighbor_solution
            /\ current_cost' = cost
            /\ best_solution' = BestSolutionUpd(neighbor_solution, cost)
            /\ best_cost' = BestCostUpd(cost)
    /\ total_counter' = total_counter + 1
    /\ j' = j + 1
    /\ UNCHANGED <<pc, cfg_vars, schedule, gen_vars, run_vars,
                   current_temp, counter, returned, imp_vars, schedule0>>

(* lines 283-286, 293-297: delta < 0.  s < exp(delta/current_temp) is the   *)
(* random draw accept; the grid was already changed in place by             *)
(* get_neighbor, whatever the draw.                                         *)
SAIterWorse ==
    /\ pc = "sa_for"
    /\ j < n_iter_one_temp
    /\ \E o \in NeighborOutcomes(current_solution), accept \in BOOLEAN :
         LET neighbor_solution == o.sol
             cost == get_cost(neighbor_solution)
         IN /\ ~o.err
            /\ cost - current_cost < 0
            /\ neighbor_cost' = cost
            /\ current_solution' = neighbor_solution
            /\ current_cost' = IF accept THEN cost ELSE current_cost
    /\ total_counter' = total_counter + 1
    /\ j' = j + 1
    /\ UNCHANGED <<pc, cfg_vars, schedule, gen_vars, run_vars,
                   best_solution, best_cost, current_temp, counter, returned,
                   imp_vars, schedule0>>

(* lines 283-284: get_neighbor raises, nothing catches it *)
SAIterRaise ==
    /\ pc = "sa_for"
    /\ j < n_iter_one_temp
    /\ \E o \in NeighborOutcomes(current_solution) : o.err
    /\ total_counter' = total_counter + 1
    /\ pc' = "sa_error"
    /\ UNCHANGED <<cfg_vars, schedule, gen_vars, run_vars,
                   current_solution, best_solution, current_cost, best_cost,
                   current_temp, counter, j, neighbor_cost, returned,
                   imp_vars, schedule0>>

(* lines 299-304 *)
SAEpochEnd ==
    /\ pc = "sa_for"
    /\ j >= n_iter_one_temp
    /\ current_temp' = Cool(current_temp)
    /\ counter' = IF Abs(current_cost - best_cost) * EpsilonDen < EpsilonNum
                  THEN counter + 1 ELSE 0
    /\ pc' = "sa_while"
    /\ UNCHANGED <<cfg_vars, schedule, gen_vars, run_vars,
                   current_solution, best_solution, current_cost, best_cost,
                   total_counter, j, neighbor_cost, returned, imp_vars, schedule0>>

(* A Schedule whose grid is about to be annealed (initial_solution=True) *)
SAStart(t, n) ==
    /\ pc = "sa_enter"
    /\ Priced(EditedCosts)
    /\ Args({min_temp, t}, n)
    /\ GridInit(SAMaxClass, SAMaxDay, SAMaxSlot, SAMaxCells, SAMaxLessons,
                SAMaxInstructors, {MaxClientsPerTraining})
    /\ initial_solution = TRUE
    /\ sa_invoked = TRUE
    /\ printed_cost = 0 /\ first_cost = 0
    /\ GenIdle /\ SAIdle /\ ImpIdle

SAInit == SAStart(SAInitialTemp, SAIterOneTemp)
SAFairInit == SAStart(FairInitialTemp, FairIterOneTemp)

SANext ==
    \/ SAEnter \/ SAWhile \/ SAReturn \/ SAIterBetter \/ SAIterWorse
    \/ SAIterRaise \/ SAEpochEnd

SpecSA == SAInit /\ [][SANext]_vars

(* The interpreter keeps executing the method until it returns or raises *)
SpecSAFair == SAFairInit /\ [][SANext]_vars /\ WF_vars(SANext)

----------------------------------------------------------------------------
(* improve_results.  A record of trainings is [d, timeslots, free_ts] (the  *)
(* Python list [d, timeslots, free_ts]); trainings2 is the sorted list of   *)
(* the SAME record objects, so it is modelled as the sequence of their      *)
(* positions in trainings.                                                  *)
RECURSIVE SlotSeq(_)
SlotSeq(S) ==
    IF S = {} THEN << >>
    ELSE LET m == CHOOSE x \in S : \A y \in S : x <= y
         IN <<m>> \o SlotSeq(S \ {m})

(* lines 319-326 for one day d of classroom cc *)
TimeslotsOf(sol, cc, d, inst) ==
    SlotSeq({ts \in 0 .. time_slot - 1 :
               sol[Idx(cc, d, ts)] # None /\ sol[Idx(cc, d, ts)].instructor = inst})
FreeTsOf(sol, cc, d) ==
    SlotSeq({ts \in 0 .. time_slot - 1 : sol[Idx(cc, d, ts)] = None})

(* lines 318-328: the records of classroom cc are appended to trainings,    *)
(* which line 316 emptied once per instructor, not once per classroom       *)
RECURSIVE ScanDays(_, _, _, _, _)
ScanDays(tr, sol, cc, inst, d) ==
    IF d >= day THEN tr
    ELSE LET timeslots == TimeslotsOf(sol, cc, d, inst)
             rec == [d |-> d, timeslots |-> timeslots, free_ts |-> FreeTsOf(sol, cc, d)]
         IN ScanDays(IF Len(timeslots) > 0 THEN Append(tr, rec) ELSE tr,
                     sol, cc, inst, d + 1)

(* sorted(trainings, key=len(item[1])): stable, ascending *)
SortRank(tr, k) ==
    Cardinality({m \in 1 .. Len(tr) :
        \/ Len(tr[m].timeslots) < Len(tr[k].timeslots)
        \/ Len(tr[m].timeslots) = Len(tr[k].timeslots) /\ m < k}) + 1
Sorted(tr) == [p \in 1 .. Len(tr) |-> CHOOSE k \in 1 .. Len(tr) : SortRank(tr, k) = p]

(* list.remove: drops the first occurrence *)
RECURSIVE RemoveFirst(_, _)
RemoveFirst(seq, v) ==
    IF seq = << >> THEN << >>
    ELSE IF Head(seq) = v THEN Tail(seq)
    ELSE <<Head(seq)>> \o RemoveFirst(Tail(seq), v)

RECURSIVE RemoveAll(_, _)
RemoveAll(seq, taken) ==
    IF taken = << >> THEN seq ELSE RemoveAll(RemoveFirst(seq, Head(taken)), Tail(taken))

(* lines 337-340 and 359-362: one assignment pair *)
MoveCellMut(sol, src, dst) == [sol EXCEPT ![dst] = sol[src]]
MoveCell(sol, src, dst) == [[sol EXCEPT ![dst] = sol[src]] EXCEPT ![src] = None]

(* the for ts_iter loops: n moves from day/slots (sd, ss) to (dd, ds) of    *)
(* classroom cc; the result is the grid and the log of the moves: the cell   *)
(* read, the cell written, what each held, the instructor being processed    *)
RECURSIVE MoveLoop(_, _, _, _, _, _, _, _)
MoveLoop(st, cc, sd, ss, dd, ds, k, n) ==
    IF k > n THEN st
    ELSE LET src == Idx(cc, sd, ss[k])
             dst == Idx(cc, dd, ds[k])
         IN MoveLoop([sol |-> MoveCell(st.sol, src, dst),
                      log |-> Append(st.log, [src |-> src, dst |-> dst,
                                              lesson |-> st.sol[src],
                                              over |-> st.sol[dst],
                                              by |-> instructor])],
                     cc, sd, ss, dd, ds, k + 1, n)

(* lines 333-379 for the pair of records at positions a = trainings2[i],    *)
(* b = trainings2[j] of trainings                                           *)
PairBody(tr, sol, a, b, cc) ==
    LET I == tr[a]
        J == tr[b]
    IN IF Len(I.timeslots) <= Len(J.free_ts)
       THEN LET n == Len(I.timeslots)
                st == MoveLoop([sol |-> sol, log |-> << >>], cc,
                               I.d, I.timeslots, J.d, J.free_ts, 1, n)
                taken == SubSeq(J.free_ts, 1, n)
            IN [sol |-> st.sol, log |-> st.log, changed |-> n > 0,
                tr |-> [tr EXCEPT
                          ![b] = [J EXCEPT !.timeslots = J.timeslots \o taken,
                                           !.free_ts = RemoveAll(J.free_ts, taken)],
                          ![a] = [I EXCEPT !.free_ts = I.free_ts \o I.timeslots,
                                           !.timeslots = << >>]]]
       ELSE IF Len(I.free_ts) > Len(J.timeslots)
       THEN LET n == Len(J.timeslots)
                st == MoveLoop([sol |-> sol, log |-> << >>], cc,
                               J.d, J.timeslots, I.d, I.free_ts, 1, n)
                taken == SubSeq(I.free_ts, 1, n)
            IN [sol |-> st.sol, log |-> st.log, changed |-> n > 0,
                tr |-> [tr EXCEPT
                          ![a] = [I EXCEPT !.timeslots = I.timeslots \o taken,
                                           !.free_ts = RemoveAll(I.free_ts, taken)],
                          ![b] = [J EXCEPT !.free_ts = J.free_ts \o J.timeslots,
                                           !.timeslots = << >>]]]
       ELSE [sol |-> sol, log |-> << >>, changed |-> FALSE, tr |-> tr]

(* the caller's get_cost of the grid it hands over, then line 312 *)
ImpCall ==
    /\ pc = "imp_call"
    /\ cost_before' = get_cost(schedule)
    /\ changed' = TRUE
    /\ pc' = "imp_while"
    /\ UNCHANGED <<cfg_vars, schedule, gen_vars, run_vars, sa_vars,
                   instructor, c, trainings, trainings2, ii, jj, moved,
                   improved_cost, schedule0>>

(* lines 313-314 *)
ImpWhile ==
    /\ pc = "imp_while"
    /\ IF changed
       THEN /\ changed' = FALSE
            /\ instructor' = 0
            /\ pc' = "imp_for_instructor"
       ELSE /\ pc' = "imp_returned"
            /\ UNCHANGED <<changed, instructor>>
    /\ UNCHANGED <<cfg_vars, schedule, gen_vars, run_vars, sa_vars,
                   c, trainings, trainings2, ii, jj, moved, cost_before, improved_cost,
                   schedule0>>

(* lines 315-316 *)
ImpForInstructor ==
    /\ pc = "imp_for_instructor"
    /\ IF instructor < NumInstructors
       THEN /\ trainings' = << >>
            /\ c' = 0
            /\ pc' = "imp_for_c"
       ELSE /\ pc' = "imp_while"
            /\ UNCHANGED <<trainings, c>>
    /\ UNCHANGED <<cfg_vars, schedule, gen_vars, run_vars, sa_vars,
                   changed, instructor, trainings2, ii, jj, moved, cost_before,
                   improved_cost, schedule0>>

(* lines 317-330 *)
ImpForClass ==
    /\ pc = "imp_for_c"
    /\ IF c < class_id
       THEN LET tr == ScanDays(trainings, schedule, c, instructor, 0)
            IN /\ trainings' = tr
               /\ trainings2' = Sorted(tr)
               /\ ii' = 0
               /\ pc' = "imp_for_i"
               /\ UNCHANGED instructor
       ELSE /\ instructor' = instructor + 1
            /\ pc' = "imp_for_instructor"
            /\ UNCHANGED <<trainings, trainings2, ii>>
    /\ UNCHANGED <<cfg_vars, schedule, gen_vars, run_vars, sa_vars,
                   changed, c, jj, moved, cost_before, improved_cost, schedule0>>

(* line 331 *)
ImpForI ==
    /\ pc = "imp_for_i"
    /\ IF ii < Len(trainings2) - 1
       THEN /\ jj' = ii + 1
            /\ pc' = "imp_for_j"
            /\ UNCHANGED c
       ELSE /\ c' = c + 1
            /\ pc' = "imp_for_c"
            /\ UNCHANGED jj
    /\ UNCHANGED <<cfg_vars, schedule, gen_vars, run_vars, sa_vars,
                   changed, instructor, trainings, trainings2, ii, moved, cost_before,
                   improved_cost, schedule0>>

(* lines 332-385: one pass of the body for the pair (i, j); Python's i, j   *)
(* count from 0, the sequences from 1                                       *)
ImpForJ ==
    /\ pc = "imp_for_j"
    /\ IF jj < Len(trainings2)
       THEN LET r == PairBody(trainings, schedule, trainings2[ii + 1],
                              trainings2[jj + 1], c)
            IN /\ schedule' = r.sol
               /\ trainings' = r.tr
               /\ moved' = r.log
               /\ changed' = r.changed
               /\ IF r.changed
                  THEN /\ trainings2' = Sorted(r.tr)
                       /\ ii' = ii + 1
                       /\ pc' = "imp_for_i"
                       /\ UNCHANGED jj
                  ELSE /\ jj' = jj + 1
                       /\ UNCHANGED <<trainings2, ii, pc>>
       ELSE /\ ii' = ii + 1
            /\ pc' = "imp_for_i"
            /\ UNCHANGED <<schedule, trainings, trainings2, moved, changed, jj>>
    /\ UNCHANGED <<cfg_vars, gen_vars, run_vars, sa_vars,
                   instructor, c, cost_before, improved_cost, schedule0>>

(* the caller's SM.get_cost() after improve_results *)
ImpGetCost ==
    /\ pc = "imp_returned"
    /\ improved_cost' = get_cost(schedule)
    /\ pc' = "finished"
    /\ UNCHANGED <<cfg_vars, schedule, gen_vars, run_vars, sa_vars,
                   changed, instructor, c, trainings, trainings2, ii, jj, moved,
                   cost_before, schedule0>>

(* A Schedule after simulated_annealing returned, with the grid it installed *)
ImpStart(costs) ==
    /\ pc = "imp_call"
    /\ Priced(costs)
    /\ Args({min_temp, SAInitialTemp}, SAIterOneTemp)
    /\ InstalledInit(ImpMaxClass, ImpMaxDay, ImpMaxSlot, ImpMaxCells, ImpMaxLessons,
                     ImpMaxInstructors, {MaxClientsPerTraining})
    /\ initial_solution = TRUE
    /\ sa_invoked = TRUE
    /\ printed_cost = 0 /\ first_cost = 0
    /\ GenIdle /\ SAIdle /\ ImpIdle

ImpInit == ImpStart(EditedCosts)
ImpFairInit == ImpStart({DefaultCosts})

ImpNext ==
    \/ ImpCall \/ ImpWhile \/ ImpForInstructor \/ ImpForClass \/ ImpForI
    \/ ImpForJ \/ ImpGetCost

SpecImp == ImpInit /\ [][ImpNext]_vars

(* The interpreter keeps executing the method until it returns *)
SpecImpFair == ImpFairInit /\ [][ImpNext]_vars /\ WF_vars(ImpNext)

----------------------------------------------------------------------------
(* generate_random_schedule.  The loop over LessonType visits the types in  *)
(* order; only the types 0..NumTypes-1 occur in the two files, the          *)
(* iterations for the other types place nothing.                            *)
(* line 218: some visited cell is occupied; line 219 then evaluates          *)
(* self.schedule[ts].instructor on a row of the reshaped (N, 1) array,       *)
(* which raises AttributeError                                               *)
ScanHitsLesson(sol, lid) == \E ts \in CongruentCells(lid) : sol[ts] # None

RemoveAt(seq, k) == SubSeq(seq, 1, k - 1) \o SubSeq(seq, k + 1, Len(seq))

AllCellsSeq == [k \in 1 .. NumCells |-> k - 1]       \* line 201

(* the error the body of the training loop ends in for the drawn lesson_id,  *)
(* "" when it places the lesson                                              *)
GenError(sol, lt, lid) ==
    IF ScanHitsLesson(sol, lid) THEN "AttributeError"         \* line 219
    ELSE IF all_instructors(lt) = {} THEN "IndexError"        \* line 221
    ELSE IF lid >= NumCells THEN "IndexError"                 \* line 222
    ELSE ""

(* lines 199-201 *)
GenCall ==
    /\ pc = "start"
    /\ i' = 0
    /\ free_ts' = AllCellsSeq
    /\ lesson_type' = 0
    /\ training' = 0
    /\ caller' = "main"
    /\ schedule0' = schedule
    /\ pc' = "gen_for"
    /\ UNCHANGED <<cfg_vars, schedule, greedy, lesson_id, gen_err, run_vars, sa_vars,
                   imp_vars>>

(* line 202/207: the groups of this type are done, next type *)
GenNextType ==
    /\ pc = "gen_for"
    /\ lesson_type < NumTypes
    /\ training >= num_of_trainings(lesson_type)
    /\ lesson_type' = lesson_type + 1
    /\ training' = 0
    /\ UNCHANGED <<pc, cfg_vars, schedule, greedy, i, free_ts, lesson_id, gen_err, caller,
                   run_vars, sa_vars, imp_vars, schedule0>>

(* lines 208-222 for one group, no error *)
GenPlace ==
    /\ pc = "gen_for"
    /\ lesson_type < NumTypes
    /\ training < num_of_trainings(lesson_type)
    /\ \E k \in 1 .. (IF greedy THEN 1 ELSE Len(free_ts)) :
         LET lid == IF greedy THEN i ELSE free_ts[k]
         IN /\ GenError(schedule, lesson_type, lid) = ""
            /\ lesson_id' = lid
            /\ i' = IF greedy THEN i + 1 ELSE i
            /\ free_ts' = IF greedy THEN free_ts ELSE RemoveAt(free_ts, k)
            /\ \E instr \in all_instructors(lesson_type) :
                 schedule' = [schedule EXCEPT ![lid] =
                     Lesson(instr, lesson_type, participants_of(lesson_type, training))]
    /\ training' = training + 1
    /\ UNCHANGED <<pc, cfg_vars, greedy, lesson_type, gen_err, caller,
                   run_vars, sa_vars, imp_vars, schedule0>>

(* lines 208-222 for one group, ending in an exception that nothing catches *)
GenRaise ==
    /\ pc = "gen_for"
    /\ lesson_type < NumTypes
    /\ training < num_of_trainings(lesson_type)
    /\ IF ~greedy /\ free_ts = << >>
       THEN /\ gen_err' = "ValueError"                        \* line 214, randint(0, -1)
            /\ UNCHANGED <<lesson_id, i, free_ts>>
       ELSE \E k \in 1 .. (IF greedy THEN 1 ELSE Len(free_ts)) :
              LET lid == IF greedy THEN i ELSE free_ts[k]
              IN /\ GenError(schedule, lesson_type, lid) # ""
                 /\ gen_err' = GenError(schedule, lesson_type, lid)
                 /\ lesson_id' = lid
                 /\ i' = IF greedy THEN i + 1 ELSE i
                 /\ free_ts' = IF greedy THEN free_ts ELSE RemoveAt(free_ts, k)
    /\ pc' = "gen_error"
    /\ UNCHANGED <<cfg_vars, schedule, greedy, lesson_type, training, caller,
                   run_vars, sa_vars, imp_vars, schedule0>>

(* line 224 and the return to the caller *)
GenReturn ==
    /\ pc = "gen_for"
    /\ lesson_type >= NumTypes
    /\ pc' = IF caller = "main" THEN "generated" ELSE "sa_enter"
    /\ UNCHANGED <<cfg_vars, schedule, gen_vars, run_vars, sa_vars,
                   imp_vars, schedule0>>

(* the pipeline calls simulated_annealing; lines 267-268 call               *)
(* generate_random_schedule() again when initial_solution is False          *)
SAInvoke ==
    /\ pc = "generated"
    /\ sa_invoked' = TRUE
    /\ schedule0' = schedule
    /\ IF initial_solution
       THEN /\ pc' = "sa_enter"
            /\ UNCHANGED gen_vars
       ELSE /\ greedy' = FALSE
            /\ i' = 0
            /\ free_ts' = AllCellsSeq
            /\ lesson_type' = 0
            /\ training' = 0
            /\ caller' = "sa"
            /\ pc' = "gen_for"
            /\ UNCHANGED <<lesson_id, gen_err>>
    /\ UNCHANGED <<cfg_vars, schedule, initial_solution, printed_cost, first_cost,
                   sa_vars, imp_vars>>

NonEmptyTypeSets == (SUBSET LessonTypes) \ {{}}

(* A Schedule after construction, about to enter the pipeline *)
GenInit ==
    /\ pc = "start"
    /\ Priced({DefaultCosts})
    /\ Args({SAInitialTemp}, SAIterOneTemp)
    /\ class_id \in 1 .. GenMaxClass
    /\ day \in 1 .. GenMaxDay
    /\ time_slot \in 1 .. GenMaxSlot
    /\ NumCells <= GenMaxCells
    /\ max_clients_per_training \in 1 .. MaxClientsPerTraining
    /\ \E n \in 0 .. NumClients : clients \in [0 .. n - 1 -> NonEmptyTypeSets]
    /\ instructors \in [0 .. GenMaxInstructors - 1 -> NonEmptyTypeSets]
    /\ schedule = EmptyGrid
    /\ schedule0 = schedule
    /\ initial_solution \in BOOLEAN
    /\ sa_invoked = FALSE
    /\ printed_cost = 0 /\ first_cost = 0
    /\ greedy \in BOOLEAN /\ i = 0 /\ free_ts = << >> /\ lesson_type = 0
    /\ training = 0 /\ lesson_id = -1 /\ gen_err = "" /\ caller = ""
    /\ SAIdle /\ ImpIdle

GenNext ==
    \/ GenCall \/ GenNextType \/ GenPlace \/ GenRaise \/ GenReturn \/ SAInvoke

SpecGen == GenInit /\ [][GenNext]_vars

----------------------------------------------------------------------------
(* Vocabulary of the properties *)
LessonsOf(g) == {g[k] : k \in Occupied(g)}
CountOf(g, L) == Cardinality({k \in Cells : g[k] = L})
SameLessons(g, h) ==
    \A L \in LessonsOf(g) \cup LessonsOf(h) : CountOf(g, L) = CountOf(h, L)

RECURSIVE SumOver(_, _)
SumOver(f, S) ==
    IF S = {} THEN 0
    ELSE LET x == CHOOSE y \in S : TRUE IN f[x] + SumOver(f, S \ {x})

InstructorDays == InstructorIds \X (0 .. day - 1)
ClassDaysAll   == (0 .. class_id - 1) \X (0 .. day - 1)
LessonsOn(g, n, d) == {k \in Occupied(g) : g[k].instructor = n /\ DayOf(k) = d}
PresenceDays(g) == Cardinality({p \in InstructorDays : LessonsOn(g, p[1], p[2]) # {}})
ClassDays(g) ==
    Cardinality({p \in ClassDaysAll :
        \E k \in Occupied(g) : ClassOf(k) = p[1] /\ DayOf(k) = p[2]})

CostFormula(g) ==
    ticket_cost * SumOver([k \in Occupied(g) |-> Len(g[k].participants)], Occupied(g))
    - hour_pay * SumOver([p \in InstructorDays |-> Cardinality(LessonsOn(g, p[1], p[2]))],
                         InstructorDays)
    - pay_for_presence * PresenceDays(g)
    - class_renting_cost * ClassDays(g)

SAGrids == pc \in {"sa_while", "sa_for", "sa_error", "sa_returned"}

----------------------------------------------------------------------------
(* C1: on a grid with an occupied and an empty cell get_neighbor changes     *)
(* exactly two cells, one occupied cell becomes empty and one empty cell     *)
(* receives that lesson; after any sequence of calls the number of occupied  *)
(* cells and the multiset of lessons are those of the starting grid.         *)
C1_Relocation ==
    (pc = "sa_for" /\ pc' = "sa_for" /\ total_counter' = total_counter + 1) =>
        \E src \in Occupied(current_solution), dst \in Free(current_solution) :
            current_solution' = [k \in Cells |->
                IF k = src THEN None
                ELSE IF k = dst THEN current_solution[src]
                ELSE current_solution[k]]
C1_LessonsKept ==
    SAGrids => /\ Cardinality(Occupied(current_solution)) = Cardinality(Occupied(schedule0))
               /\ SameLessons(current_solution, schedule0)
C1_GetNeighborRelocates == []C1_LessonsKept /\ [][C1_Relocation]_vars

C1_Witness ==
    /\ pc = "sa_for" /\ total_counter >= 2
    /\ current_solution # schedule0
    /\ Cardinality(Occupied(current_solution)) >= 2

(* C2: get_cost is ticket_cost * participants - hour_pay * lessons per       *)
(* (instructor, day) - pay_for_presence * (instructor, day) pairs with a     *)
(* lesson - class_renting_cost * (classroom, day) pairs with a lesson; two   *)
(* calls on an unmodified grid agree and the grid is not modified.           *)
C2_CostIsFormula ==
    /\ pc \in {"cost_first", "cost_done"} => printed_cost = CostFormula(schedule)
    /\ pc = "cost_done" => first_cost = CostFormula(schedule) /\ first_cost = printed_cost
    /\ schedule = schedule0

C2_Witness ==
    /\ pc = "cost_done"
    /\ \E k1, k2 \in Occupied(schedule) :
         /\ ClassOf(k1) # ClassOf(k2) /\ DayOf(k1) = DayOf(k2)
         /\ schedule[k1].instructor = schedule[k2].instructor
    /\ \E k3 \in Occupied(schedule) : Len(schedule[k3].participants) = 1

(* C3: best_cost starts at the cost of the starting grid, never decreases    *)
(* from one inner iteration to the next, and the returned best_cost is at    *)
(* least the cost of the starting grid.                                      *)
C3_Start == (pc = "sa_while" /\ total_counter = 0) => best_cost = get_cost(schedule0)
C3_Step == pc \in {"sa_while", "sa_for"} => best_cost' >= best_cost
C3_Returned == pc = "sa_returned" => returned[1] >= get_cost(schedule0)
C3_BestCostNeverDecreases == []C3_Start /\ [][C3_Step]_vars /\ []C3_Returned

C3_Witness ==
    /\ pc = "sa_returned"
    /\ returned[1] > get_cost(schedule0)
    /\ current_cost < best_cost

(* C7: get_neighbor on a grid without an occupied or without an empty cell   *)
(* raises and leaves the grid as it was; simulated_annealing does not catch  *)
(* it: the run stops there, returns nothing and installs no grid.            *)
C7_Raises ==
    (pc = "sa_for" /\ j < n_iter_one_temp /\ Degenerate(current_solution)) =>
        /\ pc' = "sa_error"
        /\ current_solution' = current_solution
        /\ schedule' = schedule
        /\ returned' = << >>
C7_Aborted ==
    pc = "sa_error" => /\ Degenerate(current_solution)
                       /\ current_solution = schedule0
                       /\ schedule = schedule0
                       /\ returned = << >>
C7_NoStepAfterError == pc = "sa_error" => FALSE
C7_DegenerateGridAborts ==
    []C7_Aborted /\ [][C7_Raises]_vars /\ [][C7_NoStepAfterError]_vars

C7_Witness ==
    /\ pc = "sa_error"
    /\ Free(current_solution) = {}
    /\ Occupied(current_solution) # {}

(* C10: best_cost is always get_cost(best_solution); proposals on the        *)
(* working grid never change best_solution; after the return the installed   *)
(* grid costs the returned best_cost and holds the lessons of the starting   *)
(* grid.                                                                     *)
C10_BestIsCostOfBest == SAGrids => best_cost = get_cost(best_solution)
C10_Installed ==
    pc = "sa_returned" => /\ get_cost(schedule) = returned[1]
                          /\ schedule = best_solution
                          /\ SameLessons(schedule, schedule0)
C10_BestKept == (SAGrids /\ best_cost' = best_cost) => best_solution' = best_solution
C10_BestGridMatchesBestCost ==
    []C10_BestIsCostOfBest /\ []C10_Installed /\ [][C10_BestKept]_vars

C10_Witness ==
    /\ pc = "sa_returned"
    /\ schedule # schedule0
    /\ current_solution # schedule
    /\ returned[1] > get_cost(schedule0)

----------------------------------------------------------------------------
(* Vocabulary of the properties of generate_random_schedule *)
GenReturned == pc \in {"generated", "sa_enter"}
LessonsOfType(g, lt) == {k \in Occupied(g) : g[k].lesson_type = lt}
InSeq(x, seq) == \E m \in 1 .. Len(seq) : seq[m] = x
TotalGroups == SumOver([lt \in LessonTypes |-> num_of_trainings(lt)], LessonTypes)

(* the instructors of the lessons at lid's position of the week, and the     *)
(* qualified instructors that remain once they are excluded                  *)
BusyAt(g, lid) == {g[ts].instructor : ts \in {t \in CongruentCells(lid) : g[t] # None}}
Remaining(g, lt, lid) == all_instructors(lt) \ BusyAt(g, lid)

(* C4: when generate_random_schedule returns, also on its second invocation  *)
(* by simulated_annealing, the grid holds every required lesson exactly      *)
(* once: per type ceil(clients / max_clients_per_training) lessons of 1 to   *)
(* max_clients_per_training participants, every client in exactly one lesson *)
(* of each type it selected, as many occupied cells as groups, at most the   *)
(* number of cells.                                                          *)
C4_EveryLessonOnce ==
    GenReturned =>
        /\ \A lt \in LessonTypes :
             /\ Cardinality(LessonsOfType(schedule, lt)) = num_of_trainings(lt)
             /\ \A k \in LessonsOfType(schedule, lt) :
                  Len(schedule[k].participants) \in 1 .. max_clients_per_training
             /\ \A n \in DOMAIN clients :
                  lt \in clients[n] =>
                     Cardinality({k \in LessonsOfType(schedule, lt) :
                                     InSeq(n, schedule[k].participants)}) = 1
        /\ Cardinality(Occupied(schedule)) = TotalGroups
        /\ TotalGroups <= NumCells

(* C5: after a normal return every lesson's instructor is qualified for its  *)
(* type and no two lessons at the same position of the week have the same    *)
(* instructor; placing a group where another classroom already holds a       *)
(* lesson excludes that lesson's instructor and picks a remaining qualified  *)
(* one.                                                                      *)
C5_Qualified ==
    GenReturned =>
        /\ \A k \in Occupied(schedule) :
             schedule[k].lesson_type \in instructors[schedule[k].instructor]
        /\ \A k1, k2 \in Occupied(schedule) :
             (k1 # k2 /\ k1 % interval = k2 % interval) =>
                 schedule[k1].instructor # schedule[k2].instructor
C5_ExclusionPicksRemaining ==
    ~ /\ pc = "gen_error"
      /\ lesson_id \in Cells /\ schedule[lesson_id] = None
      /\ \E ts \in CongruentCells(lesson_id) : schedule[ts] # None
      /\ Remaining(schedule, lesson_type, lesson_id) # {}
C5_NoInstructorConflict == C5_Qualified /\ C5_ExclusionPicksRemaining

(* C6: generate_random_schedule ends in an error exactly when a type with    *)
(* clients has no qualified instructor left after the exclusion or the       *)
(* groups outnumber the cells; simulated_annealing is not invoked after a    *)
(* failed first generation.                                                  *)
C6_ErrorOnlyThen ==
    pc = "gen_error" =>
        \/ Remaining(schedule, lesson_type, lesson_id) = {}
        \/ TotalGroups > NumCells
C6_ReturnOnlyOtherwise ==
    GenReturned =>
        /\ TotalGroups <= NumCells
        /\ \A lt \in LessonTypes : num_of_trainings(lt) > 0 => all_instructors(lt) # {}
C6_NoAnnealingAfterError == (pc = "gen_error" /\ caller = "main") => ~sa_invoked
C6_ErrorExactlyWhen ==
    C6_ErrorOnlyThen /\ C6_ReturnOnlyOtherwise /\ C6_NoAnnealingAfterError

----------------------------------------------------------------------------
ParticipantsIn(g) == SumOver([k \in Occupied(g) |-> Len(g[k].participants)], Occupied(g))
C9_LessonsKept == pc \in {"imp_returned", "finished"} => SameLessons(schedule, schedule0)
C9_MovesLegal ==
    \A m \in 1 .. Len(moved) :
        /\ moved[m].lesson # None
        /\ moved[m].lesson.instructor = moved[m].by
        /\ moved[m].over = None
        /\ ClassOf(moved[m].src) = ClassOf(moved[m].dst)
C9_LessonsPreserved == C9_LessonsKept /\ C9_MovesLegal

----------------------------------------------------------------------------
(* C11: simulated_annealing returns three results, best_cost, the total      *)
(* number of inner iterations and the sequence of current_cost values, one   *)
(* per inner iteration, so the trace is as long as the iteration count.      *)
C11_ReturnsThree ==
    pc = "sa_returned" =>
        /\ Len(returned) = 3
        /\ returned[1] = best_cost
        /\ returned[2] = total_counter
        /\ Len(returned[3]) = total_counter

----------------------------------------------------------------------------
(* C12: on a grid on which get_neighbor never fails simulated_annealing      *)
(* terminates; the outer loop goes on exactly while temperature > min_temp   *)
(* and counter < n_iter_without_improvement, an epoch multiplies the         *)
(* temperature by alpha once and increments the counter iff                  *)
(* |current_cost - best_cost| < epsilon, resetting it otherwise, and the     *)
(* returned iteration count is epochs * n_iter_one_temp (0 when              *)
(* initial_temp <= min_temp).                                                *)
RECURSIVE EpochsOf(_)
EpochsOf(t) == IF t[2] <= 1 THEN 0 ELSE 1 + EpochsOf(<<t[1], t[2] \div AlphaDen>>)

C12_Continue ==
    /\ current_temp[1] > min_temp * current_temp[2]
    /\ counter < n_iter_without_improvement
C12_LoopCond ==
    pc = "sa_while" =>
        /\ pc' = "sa_for" <=> C12_Continue
        /\ pc' = "sa_returned" <=> ~C12_Continue
C12_Epoch ==
    /\ (pc = "sa_for" /\ pc' = "sa_while") =>
          /\ current_temp'[1] * AlphaDen * current_temp[2]
                = AlphaNum * current_temp[1] * current_temp'[2]
          /\ counter' = IF (current_cost - best_cost) * EpsilonDen < EpsilonNum
                           /\ (best_cost - current_cost) * EpsilonDen < EpsilonNum
                        THEN counter + 1 ELSE 0
    /\ (pc = "sa_for" /\ pc' = "sa_for") => UNCHANGED <<current_temp, counter>>
C12_Count ==
    pc = "sa_returned" =>
        /\ returned[2] = EpochsOf(current_temp) * n_iter_one_temp
        /\ (current_temp[2] = 1 /\ current_temp[1] <= min_temp) => returned[2] = 0
C12_Returns == (pc = "sa_enter" /\ ~Degenerate(schedule)) ~> (pc = "sa_returned")
C12_AnnealingTerminates ==
    /\ [][C12_LoopCond /\ C12_Epoch]_vars
    /\ []C12_Count
    /\ C12_Returns

C12_Witness ==
    /\ pc = "sa_returned"
    /\ ~Degenerate(schedule0)
    /\ current_temp[1] > min_temp * current_temp[2]
    /\ counter = n_iter_without_improvement
    /\ total_counter = n_iter_without_improvement * n_iter_one_temp
    /\ n_iter_one_temp > 1
    /\ best_cost > get_cost(schedule0)

----------------------------------------------------------------------------
(* C13: when improve_results returns no consolidation move is left: there is *)
(* no instructor, classroom and two distinct days on both of which the       *)
(* instructor teaches in that classroom such that the instructor's lessons   *)
(* of one day are at most as many as the free slots of the classroom on the  *)
(* other day.                                                                *)
TaughtIn(g, n, cc, d) ==
    {ts \in 0 .. time_slot - 1 : g[Idx(cc, d, ts)] # None /\ g[Idx(cc, d, ts)].instructor = n}
FreeIn(g, cc, d) == {ts \in 0 .. time_slot - 1 : g[Idx(cc, d, ts)] = None}
CanConsolidate(g) ==
    \E n \in InstructorIds, cc \in 0 .. class_id - 1, d1 \in 0 .. day - 1, d2 \in 0 .. day - 1 :
        /\ d1 # d2
        /\ TaughtIn(g, n, cc, d1) # {}
        /\ TaughtIn(g, n, cc, d2) # {}
        /\ Cardinality(TaughtIn(g, n, cc, d1)) <= Cardinality(FreeIn(g, cc, d2))
C13_NoMoveLeft == pc \in {"imp_returned", "finished"} => ~CanConsolidate(schedule)

----------------------------------------------------------------------------
(* C14: after improve_results no instructor is present on more distinct days *)
(* than before, and each move of the pass drains all of the processed        *)
(* instructor's lessons of one day of a classroom into free slots of another *)
(* day on which that instructor already teaches in that classroom.           *)
DaysOf(g, n) == {d \in 0 .. day - 1 : LessonsOn(g, n, d) # {}}
C14_DaysNotMore ==
    pc \in {"imp_returned", "finished"} =>
        \A n \in InstructorIds :
            Cardinality(DaysOf(schedule, n)) <= Cardinality(DaysOf(schedule0, n))
C14_Drains ==
    (pc = "imp_for_j" /\ jj < Len(trainings2) /\ changed') =>
        \E sd \in 0 .. day - 1, dd \in 0 .. day - 1 :
            /\ sd # dd
            /\ TaughtIn(schedule, instructor, c, sd) # {}
            /\ TaughtIn(schedule, instructor, c, dd) # {}
            /\ TaughtIn(schedule', instructor, c, sd) = {}
            /\ Len(moved') = Cardinality(TaughtIn(schedule, instructor, c, sd))
            /\ \A m \in 1 .. Len(moved') :
                  /\ moved'[m].lesson # None
                  /\ moved'[m].lesson.instructor = instructor
                  /\ moved'[m].over = None
                  /\ ClassOf(moved'[m].src) = c /\ DayOf(moved'[m].src) = sd
                  /\ ClassOf(moved'[m].dst) = c /\ DayOf(moved'[m].dst) = dd
C14_FewerDays == []C14_DaysNotMore /\ [][C14_Drains]_vars

----------------------------------------------------------------------------
(* C15: from the entry into simulated_annealing until its final statement    *)
(* the Schedule's committed grid is not modified, so a run aborted by an     *)
(* error leaves the grid as it was when the call started, for                *)
(* initial_solution=True and for initial_solution=False.                     *)
C15_CommittedGridKept == (sa_invoked /\ pc # "sa_returned") => schedule = schedule0

----------------------------------------------------------------------------
(* C16: at the end of every inner iteration, accepted or rejected,           *)
(* current_cost is get_cost of the working grid current_solution, and a      *)
(* rejected proposal leaves the working grid and current_cost as they were   *)
(* before the proposal.                                                      *)
C16_Iteration == pc = "sa_for" /\ pc' = "sa_for" /\ total_counter' = total_counter + 1
C16_Rejected == C16_Iteration /\ neighbor_cost' < current_cost /\ current_cost' = current_cost
C16_CostOfWorkingGrid ==
    /\ [][C16_Iteration => current_cost' = get_cost(current_solution')]_vars
    /\ [][C16_Rejected => current_solution' = current_solution]_vars

----------------------------------------------------------------------------
(* C17: at every point of a simulated_annealing run current_cost <=          *)
(* best_cost, and best_cost is the maximum of the initial grid's cost and    *)
(* the costs of all neighbor grids evaluated so far, rejected proposals      *)
(* included: it starts as the initial grid's cost and every evaluation       *)
(* leaves it at the larger of its old value and the evaluated cost.          *)
C17_CurrentAtMostBest == SAGrids => current_cost <= best_cost
C17_Start == (pc = "sa_enter" /\ pc' = "sa_while") => best_cost' = get_cost(schedule)
C17_Iteration == pc = "sa_for" /\ pc' = "sa_for" /\ total_counter' = total_counter + 1
C17_Evaluated ==
    C17_Iteration =>
        /\ neighbor_cost' = get_cost(current_solution')
        /\ best_cost' = IF neighbor_cost' > best_cost THEN neighbor_cost' ELSE best_cost
C17_Kept == (pc # "sa_enter" /\ ~C17_Iteration) => best_cost' = best_cost
C17_BestIsMaxEvaluated ==
    /\ []C17_CurrentAtMostBest
    /\ [][C17_Start /\ C17_Evaluated /\ C17_Kept]_vars

C17_Witness ==
    /\ pc = "sa_for"
    /\ total_counter >= 2
    /\ neighbor_cost < best_cost
    /\ current_cost < best_cost
    /\ best_cost > get_cost(schedule0)

----------------------------------------------------------------------------
(* C18: improve_results terminates on every grid, for any number of          *)
(* classrooms, days, slots and instructors: the 'while changed' loop is      *)
(* executed only finitely many times, so every call returns.                 *)
C18_Terminates == (pc = "imp_call") ~> (pc = "imp_returned")

====
